---- MODULE Spec2Model ----
(***************************************************************************)
(* Model of the exercise solutions of the repository:                      *)
(*   - solution_minesweeper.py : minesweeper(tablero)                      *)
(*   - solution_best_in_genre.py : bestInGenre(genre), topNInGenre(genre,n)*)
(* Python lists are objects with identity: the heap maps an object id to   *)
(* the list's contents, so that aliasing and in-place writes are visible.  *)
(* Loop indices are 0-based as in the source; sequences are 1-based.       *)
(***************************************************************************)
EXTENDS Integers, Sequences, FiniteSets, TLC

\* ---------------------------------------------------------------- bounds
MaxRows == 3
MaxCols == 3
JagRows == 2
JagCols == 2
MaxPages == 2
MaxSeries == 2
MaxN == 1

VARIABLES
  heap,        \* object id -> contents of the list object (rows hold cells, outer lists hold row ids)
  orig,        \* the heap as it was when minesweeper was called
  tablero,     \* id of the input list
  resultado,   \* id of the output list, 0 before it is allocated
  filas,       \* len(tablero)
  cols,        \* len(tablero[0])
  r,           \* row index of the outer loop
  c,           \* column index of the inner loop
  ret,         \* id of the returned list, 0 while running
  pc,          \* position in minesweeper
  api,         \* the pages the API serves: page number -> list of items
  fetched,     \* the page numbers whose fetch_page call returned
  caller,      \* the function called: "bestInGenre" or "topNInGenre"
  genre,       \* argument genre
  n,           \* argument n of topNInGenre
  genre_token, \* genre.strip().lower()
  total_pages, \* int(first.get("total_pages", 1))
  p,           \* the next page of the loop of line 58
  matches,     \* list of (name, rating)
  top,         \* the list topNInGenre returns
  best,        \* the string bestInGenre returns
  gpc          \* position in bestInGenre / topNInGenre

mvars == <<heap, orig, tablero, resultado, filas, cols, r, c, ret, pc>>

gvars == <<api, fetched, caller, genre, n, genre_token, total_pages, p, matches, top, best, gpc>>

vars == <<mvars, gvars>>

\* ------------------------------------------------------------ minesweeper
Cells == {0, 1}

RowsUpTo(k) == UNION {[1..nc -> Cells] : nc \in 0..k}

RectGrids == UNION {[1..nr -> [1..nc -> Cells]] : nr \in 0..MaxRows, nc \in 0..MaxCols}

JaggedGrids == UNION {[1..nr -> RowsUpTo(JagCols)] : nr \in 1..JagRows}

\* The caller's grid g as objects: one list per row, then the outer list.
HeapOf(g) == [i \in 1..(Len(g) + 1) |->
                IF i <= Len(g) THEN g[i] ELSE [j \in 1..Len(g) |-> j]]

\* tablero[i][j] of the source (0-based); "IndexError" when j is past the row.
InRow(h, t, i, j) == j + 1 <= Len(h[h[t][i + 1]])

ReadCell(h, t, i, j) == h[h[t][i + 1]][j + 1]

MINE == 9

\* the (dr, dc) pairs in the order of the two nested for loops
Offsets == <<  <<-1, -1>>, <<-1, 0>>, <<-1, 1>>,
               <<0, -1>>,  <<0, 0>>,  <<0, 1>>,
               <<1, -1>>,  <<1, 0>>,  <<1, 1>> >>

\* Line 32 without the two lower-bound tests: Python's negative index wraps around.
ProbeWrap(h, t, nf, ncol, i, j, k) ==
  LET dr == Offsets[k][1]
      dc == Offsets[k][2]
      nr == i + dr
      nc == j + dc
      wr == (nr + nf) % nf
      row == h[h[t][wr + 1]]
      wc == IF Len(row) = 0 THEN 0 ELSE (nc + Len(row)) % Len(row)
  IN  IF dr = 0 /\ dc = 0 THEN "skip"
      ELSE IF ~(nr < nf /\ nc < ncol) THEN "out"
      ELSE IF Len(row) = 0 \/ nc + 1 > Len(row) THEN "error"
      ELSE IF row[wc + 1] = 1 THEN "mine" ELSE "clear"

\* One evaluation of the condition of line 32, with Python's short-circuit:
\* "skip" (dr = dc = 0), "out" (outside the grid), "error" (IndexError),
\* "mine" or "clear".
Probe(h, t, nf, ncol, i, j, k) ==
  LET dr == Offsets[k][1]
      dc == Offsets[k][2]
      nr == i + dr
      nc == j + dc
  IN  IF dr = 0 /\ dc = 0 THEN "skip"
      ELSE IF ~(0 <= nr /\ nr < nf /\ 0 <= nc /\ nc < ncol) THEN "out"
      ELSE IF ~InRow(h, t, nr, nc) THEN "error"
      ELSE IF ReadCell(h, t, nr, nc) = 1 THEN "mine" ELSE "clear"

\* cuenta after the offsets k..9, starting from acc; -1 when an IndexError is raised
RECURSIVE Cuenta(_, _, _, _, _, _, _, _)
Cuenta(h, t, nf, ncol, i, j, k, acc) ==
  IF k > Len(Offsets) THEN acc
  ELSE LET pr == Probe(h, t, nf, ncol, i, j, k)
       IN  IF pr = "error" THEN -1
           ELSE Cuenta(h, t, nf, ncol, i, j, k + 1, IF pr = "mine" THEN acc + 1 ELSE acc)

\* lines 23-34 without the continue of line 25: a mine is counted like any cell
CellValueNoContinue(h, t, nf, ncol, i, j) == Cuenta(h, t, nf, ncol, i, j, 1, 0)

\* the value lines 23-34 store in resultado[i][j]; -1 when an IndexError is raised
CellValue(h, t, nf, ncol, i, j) ==
  IF ReadCell(h, t, i, j) = 1 THEN MINE ELSE Cuenta(h, t, nf, ncol, i, j, 1, 0)

\* cols = len(tablero): the grid taken to be square
ColsSquare(h, t) == Len(h[t])

\* cols = len(tablero[-1]): the last row taken for the first
ColsLast(h, t) == Len(h[h[t][Len(h[t])]])

\* cols = len(tablero[0])
ColsOf(h, t) == Len(h[h[t][1]])

\* resultado = [[0] * cols] * filas : one row object, filas references to it
AllocAliased(h, nf, ncol) ==
  h \o << [j \in 1..ncol |-> 0] >>
    \o << [i \in 1..nf |-> Len(h) + 1] >>

\* resultado = [[0] * cols for _ in range(filas)] : filas fresh rows and a fresh outer list
AllocResultado(h, nf, ncol) ==
  h \o [i \in 1..nf |-> [j \in 1..ncol |-> 0]]
    \o << [i \in 1..nf |-> Len(h) + i] >>

\* resultado[i][j] = v
WriteCell(h, res, i, j, v) == [h EXCEPT ![h[res][i + 1]][j + 1] = v]

\* the loop position after cell (i, j)
Advance(i, j, ncol) == IF j + 1 < ncol THEN <<i, j + 1>> ELSE <<i + 1, 0>>

\* no call of bestInGenre / topNInGenre is in progress
GIdle ==
  /\ api = <<>>
  /\ fetched = {}
  /\ caller = "none"
  /\ genre = <<>>
  /\ n = 0
  /\ genre_token = <<>>
  /\ total_pages = 0
  /\ p = 0
  /\ matches = <<>>
  /\ top = <<>>
  /\ best = <<>>
  /\ gpc = "idle"

MInit ==
  /\ \E g \in RectGrids \cup JaggedGrids :
       /\ heap = HeapOf(g)
       /\ orig = HeapOf(g)
       /\ tablero = Len(g) + 1
  /\ resultado = 0
  /\ filas = 0
  /\ cols = 0
  /\ r = 0
  /\ c = 0
  /\ ret = 0
  /\ pc = "call"
  /\ GIdle

\* lines 14-15: if not tablero: return []
ReturnEmpty ==
  /\ pc = "call"
  /\ Len(heap[tablero]) = 0
  /\ heap' = Append(heap, <<>>)
  /\ ret' = Len(heap) + 1
  /\ pc' = "done"
  /\ UNCHANGED <<orig, tablero, resultado, filas, cols, r, c>>
  /\ UNCHANGED gvars

\* lines 17-19
Alloc ==
  /\ pc = "call"
  /\ Len(heap[tablero]) > 0
  /\ filas' = Len(heap[tablero])
  /\ cols' = ColsOf(heap, tablero)
  /\ heap' = AllocResultado(heap, filas', cols')
  /\ resultado' = Len(heap')
  /\ r' = 0
  /\ c' = 0
  /\ pc' = IF cols' = 0 THEN "return" ELSE "loop"
  /\ UNCHANGED <<orig, tablero, ret>>
  /\ UNCHANGED gvars

Step ==
  /\ r' = Advance(r, c, cols)[1]
  /\ c' = Advance(r, c, cols)[2]
  /\ pc' = IF r' < filas THEN "loop" ELSE "return"

\* lines 23-25: a mine
CellMine ==
  /\ pc = "loop"
  /\ InRow(heap, tablero, r, c)
  /\ ReadCell(heap, tablero, r, c) = 1
  /\ heap' = WriteCell(heap, resultado, r, c, CellValue(heap, tablero, filas, cols, r, c))
  /\ Step
  /\ UNCHANGED <<orig, tablero, resultado, filas, cols, ret>>
  /\ UNCHANGED gvars

\* lines 26-34: a cell without a mine
CellCount ==
  /\ pc = "loop"
  /\ InRow(heap, tablero, r, c)
  /\ ReadCell(heap, tablero, r, c) # 1
  /\ CellValue(heap, tablero, filas, cols, r, c) >= 0
  /\ heap' = WriteCell(heap, resultado, r, c, CellValue(heap, tablero, filas, cols, r, c))
  /\ Step
  /\ UNCHANGED <<orig, tablero, resultado, filas, cols, ret>>
  /\ UNCHANGED gvars

\* lines 23 and 32: tablero[r][c] or tablero[nr][nc] past the end of a short row
CellRaise ==
  /\ pc = "loop"
  /\ \/ ~InRow(heap, tablero, r, c)
     \/ /\ InRow(heap, tablero, r, c)
        /\ ReadCell(heap, tablero, r, c) # 1
        /\ CellValue(heap, tablero, filas, cols, r, c) < 0
  /\ pc' = "raised"
  /\ UNCHANGED <<heap, orig, tablero, resultado, filas, cols, r, c, ret>>
  /\ UNCHANGED gvars

\* line 36
Return ==
  /\ pc = "return"
  /\ ret' = resultado
  /\ pc' = "done"
  /\ UNCHANGED <<heap, orig, tablero, resultado, filas, cols, r, c>>
  /\ UNCHANGED gvars

MNext == ReturnEmpty \/ Alloc \/ CellMine \/ CellCount \/ CellRaise \/ Return

Spec == MInit /\ [][MNext]_vars

\* ------------------------------------------------- minesweeper: properties
\* the caller's grid, as it was at the call
Entrada == [i \in 1..Len(orig[tablero]) |-> orig[orig[tablero][i]]]

\* the returned grid
Salida == [i \in 1..Len(heap[ret]) |-> heap[heap[ret][i]]]

IsRect(g) == \A i \in 1..Len(g) : Len(g[i]) = Len(g[1])

Returned == pc = "done"

\* the in-grid 8-neighbourhood of (i, j) in a grid of nf rows and ncol columns (1-based)
Vecinas(i, j, nf, ncol) ==
  {q \in (1..nf) \X (1..ncol) :
     /\ q # <<i, j>>
     /\ q[1] - i \in {-1, 0, 1}
     /\ q[2] - j \in {-1, 0, 1}}

MinasVecinas(g, i, j, nf, ncol) ==
  Cardinality({q \in Vecinas(i, j, nf, ncol) : g[q[1]][q[2]] = 1})

\* C1: on a rectangular grid the call raises no error and every clear cell of
\* the result holds the number of mines among its in-grid neighbours (no
\* wraparound), a number in 0..8.
C1_ClearCellsCount ==
  IsRect(Entrada) =>
    /\ pc # "raised"
    /\ Returned =>
         \A i \in 1..Len(Entrada) : \A j \in 1..Len(Entrada[i]) :
           Entrada[i][j] = 0 =>
             /\ Salida[i][j] = MinasVecinas(Entrada, i, j, Len(Entrada), Len(Entrada[1]))
             /\ Salida[i][j] \in 0..8

\* a clear cell whose eight neighbours are all mines, and a clear corner cell
C1_Witness ==
  /\ Returned
  /\ IsRect(Entrada)
  /\ \E i \in 1..Len(Entrada) : \E j \in 1..Len(Entrada[i]) :
       Entrada[i][j] = 0 /\ Salida[i][j] = 8

\* C2: on a rectangular grid every mine cell of the result holds 9, whatever
\* its neighbours are.
C2_MineCellsNine ==
  (Returned /\ IsRect(Entrada)) =>
    \A i \in 1..Len(Entrada) : \A j \in 1..Len(Entrada[i]) :
      Entrada[i][j] = 1 => Salida[i][j] = 9

\* a mine all of whose eight neighbours are mines
C2_Witness ==
  /\ Returned
  /\ IsRect(Entrada)
  /\ \E i \in 1..Len(Entrada) : \E j \in 1..Len(Entrada[i]) :
       /\ Entrada[i][j] = 1
       /\ MinasVecinas(Entrada, i, j, Len(Entrada), Len(Entrada[1])) = 8
       /\ Salida[i][j] = 9

\* C3: on a rectangular grid the result has as many rows as the input and each
\* row as many cells as the input's row; the empty grid gives the empty grid.
C3_SameShape ==
  (Returned /\ IsRect(Entrada)) =>
    /\ Len(Salida) = Len(Entrada)
    /\ \A i \in 1..Len(Entrada) : Len(Salida[i]) = Len(Entrada[i])
    /\ Entrada = <<>> => Salida = <<>>

\* rows of zero columns, and a grid that is not square
C3_Witness ==
  /\ Returned
  /\ IsRect(Entrada)
  /\ Len(Entrada) = 2
  /\ Len(Salida) = 2
  /\ Len(Entrada[1]) \in {0, 3}

C3_WitnessEmpty == Returned /\ Entrada = <<>> /\ Salida = <<>>

\* C4: no list that existed at the call is ever written, the returned list is
\* a new object, and its rows are new objects, no two of them the same.
C4_InputUntouchedOutputFresh ==
  /\ Len(heap) >= Len(orig)
  /\ \A id \in 1..Len(orig) : heap[id] = orig[id]
  /\ Returned =>
       /\ ret \notin 1..Len(orig)
       /\ \A i \in 1..Len(heap[ret]) : heap[ret][i] \notin 1..Len(orig)
       /\ \A i, j \in 1..Len(heap[ret]) : i # j => heap[ret][i] # heap[ret][j]

\* a returned grid of two rows or more, with a cell written
C4_Witness ==
  /\ Returned
  /\ Len(heap[ret]) >= 2
  /\ \E i \in 1..Len(Salida) : \E j \in 1..Len(Salida[i]) : Salida[i][j] # 0

\* the input cut to the length of its first row
Recortada(g) == [i \in 1..Len(g) |-> SubSeq(g[i], 1, Len(g[1]))]

\* C8: on a jagged grid a call that returns gives as many rows as the input,
\* each of the length of the input's first row, computed from the cells
\* within that length.
C8_JaggedFirstRowLength ==
  (Returned /\ ~IsRect(Entrada)) =>
    /\ Len(Salida) = Len(Entrada)
    /\ \A i \in 1..Len(Salida) :
         /\ Len(Salida[i]) = Len(Entrada[1])
         /\ \A j \in 1..Len(Salida[i]) :
              Salida[i][j] = IF Entrada[i][j] = 1 THEN 9
                             ELSE MinasVecinas(Recortada(Entrada), i, j,
                                               Len(Entrada), Len(Entrada[1]))

\* a jagged grid with a longer later row, returned with a mine counted
C8_Witness ==
  /\ Returned
  /\ ~IsRect(Entrada)
  /\ Len(Entrada[1]) > 0
  /\ \E i \in 1..Len(Salida) : \E j \in 1..Len(Salida[i]) : Salida[i][j] \in 1..8

\* a jagged grid with a short row: the call raises
C8_WitnessRaised == pc = "raised" /\ ~IsRect(Entrada)

\* ------------------------------------------- bestInGenre / topNInGenre
\* A Python str is the sequence of its characters; None is its own value.
None == [k |-> "none"]
Str(cs) == [k |-> "str", v |-> cs]
Num(x) == [k |-> "num", v |-> x]

\* code points of the characters in use
Ord(ch) ==
  CASE ch = " " -> 32
    [] ch = "," -> 44
    [] ch = "7" -> 55
    [] ch = "9" -> 57
    [] ch = "A" -> 65
    [] ch = "B" -> 66
    [] ch = "a" -> 97
    [] ch = "b" -> 98
    [] ch = "x" -> 120

IsDigit(ch) == Ord(ch) >= 48 /\ Ord(ch) <= 57

\* str.lower
LowerCh(ch) == CASE ch = "A" -> "a" [] ch = "B" -> "b" [] OTHER -> ch

Lower(cs) == [i \in 1..Len(cs) |-> LowerCh(cs[i])]

\* str.strip
RECURSIVE LStrip(_)
LStrip(cs) == IF cs # <<>> /\ cs[1] = " " THEN LStrip(Tail(cs)) ELSE cs

RECURSIVE RStrip(_)
RStrip(cs) ==
  IF cs # <<>> /\ cs[Len(cs)] = " " THEN RStrip(SubSeq(cs, 1, Len(cs) - 1)) ELSE cs

Strip(cs) == RStrip(LStrip(cs))

\* str.split(","): the pieces between commas, empty pieces included
RECURSIVE SplitFrom(_, _, _)
SplitFrom(cs, cur, out) ==
  IF cs = <<>> THEN Append(out, cur)
  ELSE IF cs[1] = "," THEN SplitFrom(Tail(cs), <<>>, Append(out, cur))
  ELSE SplitFrom(Tail(cs), Append(cur, cs[1]), out)

Split(cs) == SplitFrom(cs, <<>>, <<>>)

\* s < t for Python strings: lexicographic on code points
RECURSIVE StrLess(_, _)
StrLess(a, b) ==
  IF b = <<>> THEN FALSE
  ELSE IF a = <<>> THEN TRUE
  ELSE IF Ord(a[1]) # Ord(b[1]) THEN Ord(a[1]) < Ord(b[1])
  ELSE StrLess(Tail(a), Tail(b))

\* x or d
OrElse(x, d) ==
  IF x = None \/ x = Str(<<>>) \/ x = Num(0) THEN d ELSE x

\* the value of a string of digits
RECURSIVE DigitsValue(_, _)
DigitsValue(cs, acc) ==
  IF cs = <<>> THEN acc ELSE DigitsValue(Tail(cs), 10 * acc + (Ord(cs[1]) - 48))

\* float(x): ok = FALSE stands for the ValueError of a string that is no number
Float(x) ==
  IF x.k = "num" THEN [ok |-> TRUE, v |-> x.v]
  ELSE LET cs == Strip(x.v)
       IN  IF cs # <<>> /\ \A i \in 1..Len(cs) : IsDigit(cs[i])
           THEN [ok |-> TRUE, v |-> DigitsValue(cs, 0)]
           ELSE [ok |-> FALSE, v |-> 0]

\* line 41: the tokens of an item's genre string
RECURSIVE TokensOf(_)
TokensOf(pieces) ==
  IF pieces = <<>> THEN <<>>
  ELSE IF Strip(pieces[1]) # <<>>
       THEN <<Lower(Strip(pieces[1]))>> \o TokensOf(Tail(pieces))
       ELSE TokensOf(Tail(pieces))

Tokens(item) == TokensOf(Split(OrElse(item.genre, Str(<<>>)).v))

InList(x, xs) == \E i \in 1..Len(xs) : xs[i] = x

\* line 42 with "in" taken on the genre string instead of the token list
RECURSIVE IsSubstr(_, _)
IsSubstr(a, b) ==
  \/ (Len(a) <= Len(b) /\ SubSeq(b, 1, Len(a)) = a)
  \/ (b # <<>> /\ IsSubstr(a, Tail(b)))

GenreMatchesSubstr(tok, item) == IsSubstr(tok, Lower(OrElse(item.genre, Str(<<>>)).v))

\* line 42: genre_token in tokens
GenreMatches(tok, item) == InList(tok, Tokens(item))

\* lines 39-51: matches after maybe_add(item)
MaybeAdd(ms, tok, item) ==
  IF ~GenreMatches(tok, item) THEN ms
  ELSE LET rating == Float(OrElse(item.imdb_rating, Num(0)))
           name == Strip(OrElse(item.name, Str(<<>>)).v)
       IN  IF ~rating.ok THEN ms
           ELSE IF name = <<>> THEN ms
           ELSE Append(ms, <<name, rating.v>>)

\* lines 54-55 and 63-64: maybe_add on every item of a page, in order
RECURSIVE AddPage(_, _, _)
AddPage(ms, tok, items) ==
  IF items = <<>> THEN ms
  ELSE AddPage(MaybeAdd(ms, tok, items[1]), tok, Tail(items))

\* the sort key with the name descending
KeyLessNameDesc(a, b) == a[2] > b[2] \/ (a[2] = b[2] /\ StrLess(b[1], a[1]))

\* line 67: key(a) < key(b) for key = (-rating, name)
KeyLess(a, b) == a[2] > b[2] \/ (a[2] = b[2] /\ StrLess(a[1], b[1]))

\* list.sort is stable: x goes after every element whose key is not greater
RECURSIVE InsertSorted(_, _)
InsertSorted(xs, x) ==
  IF xs = <<>> THEN <<x>>
  ELSE IF KeyLess(x, xs[1]) THEN <<x>> \o xs
  ELSE <<xs[1]>> \o InsertSorted(Tail(xs), x)

RECURSIVE SortFrom(_, _)
SortFrom(xs, acc) ==
  IF xs = <<>> THEN acc ELSE SortFrom(Tail(xs), InsertSorted(acc, xs[1]))

Sorted(xs) == SortFrom(xs, <<>>)

\* matches[:k + 1]
SliceOneMore(xs, k) ==
  IF k + 1 >= 0 THEN SubSeq(xs, 1, IF k + 1 < Len(xs) THEN k + 1 ELSE Len(xs))
  ELSE SubSeq(xs, 1, Len(xs) + k + 1)

\* line 68: matches[:k], a negative k counting from the end
Slice(xs, k) ==
  IF k >= 0 THEN SubSeq(xs, 1, IF k < Len(xs) THEN k ELSE Len(xs))
  ELSE SubSeq(xs, 1, Len(xs) + k)

NoResult == <<"N", "o", " ", "r", "e", "s", "u", "l", "t">>

\* line 19
BestOf(t) == IF t # <<>> THEN t[1][1] ELSE NoResult

\* the series the API may hold
Item(gn, rt, nm) == [genre |-> gn, imdb_rating |-> rt, name |-> nm]

Catalogue ==
  { Item(Str(<<"A", ",", " ", "b">>), Num(9), Str(<<" ", "a", " ">>)),
    Item(Str(<<"a">>), Str(<<"9">>), Str(<<"B">>)),
    Item(Str(<<"b", ",", "a">>), None, Str(<<"b">>)),
    Item(Str(<<"a">>), Num(7), Str(<<"a">>)),
    Item(Str(<<"a", "b">>), Num(9), Str(<<"A">>)),
    Item(Str(<<"a">>), Str(<<"x">>), Str(<<"A">>)),
    Item(Str(<<" ", "a">>), Num(9), Str(<<" ">>)),
    Item(None, Num(9), None) }

Genres == { <<>>, <<" ">>, <<" ", "A">>, <<"b">> }

\* the lists of at most k series
PageLists(k) == UNION {[1..m -> Catalogue] : m \in 0..k}

\* the APIs of np pages holding at most k series in all
RECURSIVE ApisOf(_, _)
ApisOf(np, k) ==
  IF np = 0 THEN {<<>>}
  ELSE UNION {{<<pg>> \o rest : rest \in ApisOf(np - 1, k - Len(pg))} : pg \in PageLists(k)}

Apis == UNION {ApisOf(np, MaxSeries) : np \in 1..MaxPages}

\* no call of minesweeper is in progress
MIdle ==
  /\ heap = <<>>
  /\ orig = <<>>
  /\ tablero = 0
  /\ resultado = 0
  /\ filas = 0
  /\ cols = 0
  /\ r = 0
  /\ c = 0
  /\ ret = 0
  /\ pc = "idle"

GInit ==
  /\ MIdle
  /\ api \in Apis
  /\ fetched = {}
  /\ genre \in Genres
  /\ \/ caller = "bestInGenre" /\ n = 1
     \/ caller = "topNInGenre" /\ n \in -1..MaxN
  /\ genre_token = <<>>
  /\ total_pages = 0
  /\ p = 0
  /\ matches = <<>>
  /\ top = <<>>
  /\ best = <<>>
  /\ gpc = "call"

\* lines 27-28: an empty or blank genre
GenreBlank ==
  /\ gpc = "call"
  /\ (genre = <<>> \/ Strip(genre) = <<>>)
  /\ top' = <<>>
  /\ gpc' = "returned"
  /\ UNCHANGED <<api, fetched, caller, genre, n, genre_token, total_pages, p, matches, best>>
  /\ UNCHANGED mvars

\* line 30
GenreToken ==
  /\ gpc = "call"
  /\ ~(genre = <<>> \/ Strip(genre) = <<>>)
  /\ genre_token' = Lower(Strip(genre))
  /\ gpc' = "first"
  /\ UNCHANGED <<api, fetched, caller, genre, n, total_pages, p, matches, top, best>>
  /\ UNCHANGED mvars

\* lines 31-34: fetch_page(1) raises
FirstPageFail ==
  /\ gpc = "first"
  /\ top' = <<>>
  /\ gpc' = "returned"
  /\ UNCHANGED <<api, fetched, caller, genre, n, genre_token, total_pages, p, matches, best>>
  /\ UNCHANGED mvars

\* lines 31-32, 36-37 and 54-55: the first page
FirstPageOk ==
  /\ gpc = "first"
  /\ fetched' = fetched \cup {1}
  /\ total_pages' = Len(api)
  /\ matches' = AddPage(<<>>, genre_token, api[1])
  /\ p' = 2
  /\ gpc' = "pages"
  /\ UNCHANGED <<api, caller, genre, n, genre_token, top, best>>
  /\ UNCHANGED mvars

\* lines 58-60 and 63-64: page p
NextPageOk ==
  /\ gpc = "pages"
  /\ p <= total_pages
  /\ fetched' = fetched \cup {p}
  /\ matches' = AddPage(matches, genre_token, api[p])
  /\ p' = p + 1
  /\ UNCHANGED <<api, caller, genre, n, genre_token, total_pages, top, best, gpc>>
  /\ UNCHANGED mvars

\* lines 58-62: fetch_page(p) raises, the page is skipped
NextPageFail ==
  /\ gpc = "pages"
  /\ p <= total_pages
  /\ p' = p + 1
  /\ UNCHANGED <<api, fetched, caller, genre, n, genre_token, total_pages, matches, top, best, gpc>>
  /\ UNCHANGED mvars

\* lines 66-68: sort in place, return the slice
SortReturn ==
  /\ gpc = "pages"
  /\ p > total_pages
  /\ matches' = Sorted(matches)
  /\ top' = Slice(matches', n)
  /\ gpc' = "returned"
  /\ UNCHANGED <<api, fetched, caller, genre, n, genre_token, total_pages, p, best>>
  /\ UNCHANGED mvars

\* lines 18-19
BestReturn ==
  /\ gpc = "returned"
  /\ caller = "bestInGenre"
  /\ best' = BestOf(top)
  /\ gpc' = "done"
  /\ UNCHANGED <<api, fetched, caller, genre, n, genre_token, total_pages, p, matches, top>>
  /\ UNCHANGED mvars

GNext ==
  \/ GenreBlank \/ GenreToken \/ FirstPageFail \/ FirstPageOk
  \/ NextPageOk \/ NextPageFail \/ SortReturn \/ BestReturn

SpecGenre == GInit /\ [][GNext]_vars

\* ------------------------------- bestInGenre / topNInGenre: properties
\* the series on the pages ps, each by its place <<page, index>>
SeriesOn(ps) == UNION {{<<pg, i>> : i \in 1..Len(api[pg])} : pg \in ps}

AllPages == 1..Len(api)

SeriesAt(o) == api[o[1]][o[2]]

\* the genre string of a series, the empty string when it has none
GenreString(it) == IF it.genre.k = "str" THEN it.genre.v ELSE <<>>

\* the series lists the genre g among its comma-separated genres, spaces
\* around a genre and the case of letters apart
OfGenre(it, g) ==
  /\ Strip(g) # <<>>
  /\ \E i \in 1..Len(Split(GenreString(it))) :
       Lower(Strip(Split(GenreString(it))[i])) = Lower(Strip(g))

\* the name of a series without the spaces around it, empty when it has none
NameOf(it) == IF it.name.k = "str" THEN Strip(it.name.v) ELSE <<>>

\* the rating of a series is a number: 0 when absent or empty
HasRating(it) == Float(OrElse(it.imdb_rating, Num(0))).ok

RatingOf(it) == Float(OrElse(it.imdb_rating, Num(0))).v

\* the series of genre g on the pages ps
Matching(ps, g) == {o \in SeriesOn(ps) : OfGenre(SeriesAt(o), g)}

\* those with a rating and a name
Eligible(ps, g) ==
  {o \in Matching(ps, g) : HasRating(SeriesAt(o)) /\ NameOf(SeriesAt(o)) # <<>>}

\* (name a, rating ra) comes strictly before (name b, rating rb): rating
\* descending, then name ascending
Before(a, ra, b, rb) == ra > rb \/ (ra = rb /\ StrLess(a, b))

\* best is the name of a series that no series of the set es comes before
IsBestOf(es) ==
  \E o \in es :
    /\ best = NameOf(SeriesAt(o))
    /\ \A q \in es : ~Before(NameOf(SeriesAt(q)), RatingOf(SeriesAt(q)),
                             NameOf(SeriesAt(o)), RatingOf(SeriesAt(o)))

BestDone == gpc = "done" /\ caller = "bestInGenre"

NonEmptyName(it) == it.name.k = "str" /\ it.name.v # <<>>

C6_WitnessBlank ==
  /\ BestDone
  /\ genre = <<" ">>
  /\ SeriesOn(AllPages) # {}
  /\ best = NoResult

TupleOf(o) == <<NameOf(SeriesAt(o)), RatingOf(SeriesAt(o))>>

CountIn(xs, v) == Cardinality({i \in 1..Len(xs) : xs[i] = v})

CountAmong(es, v) == Cardinality({o \in es : TupleOf(o) = v})

TopReturned == gpc \in {"returned", "done"}

\* top holds at most n tuples, all of series of the set es, rating descending
\* and name ascending, and is the first n of es in that order
IsTopN(es) ==
  /\ Len(top) <= n
  /\ Len(top) = (IF n < Cardinality(es) THEN n ELSE Cardinality(es))
  /\ \A i, j \in 1..Len(top) :
       i < j => ~Before(top[j][1], top[j][2], top[i][1], top[i][2])
  /\ \A i \in 1..Len(top) :
       /\ CountIn(top, top[i]) <= CountAmong(es, top[i])
       /\ top[i][1] # <<>>
  /\ \A o \in es :
       CountIn(top, TupleOf(o)) < CountAmong(es, TupleOf(o)) =>
         \A i \in 1..Len(top) :
           ~Before(TupleOf(o)[1], TupleOf(o)[2], top[i][1], top[i][2])

====
